---- MODULE Spec2Model ----
(***************************************************************************)
(* USB-SCAN: a model of src/usb.py (the scanner, its HTML report and its   *)
(* interactive loop) and of src/USB-SCAN.py (the identity prompt loop and  *)
(* its HTML history).                                                      *)
(*                                                                         *)
(* Text is a sequence of strings.  Text that the programs transform        *)
(* (strip, lower, replace, splitlines, html.escape, isoformat) is spelled  *)
(* character by character; a word of several characters stands for a run   *)
(* of characters that none of these operations touches.  None is <<>>.     *)
(***************************************************************************)
EXTENDS Integers, Sequences, FiniteSets, TLC

\* Devices one enumeration can list (each attached device is listed once).
MaxDev == 2
\* Passes of the USB-SCAN.py prompt loop that the model follows.
MaxLoop == 2

None == <<>>

----------------------------------------------------------------------------
(* Python text operations *)

Whitespace == {" ", "\n", "\t"}

RECURSIVE LStrip(_)
LStrip(str) ==
    IF str # <<>> /\ Head(str) \in Whitespace THEN LStrip(Tail(str)) ELSE str

RECURSIVE RStrip(_)
RStrip(str) ==
    IF str # <<>> /\ str[Len(str)] \in Whitespace
    THEN RStrip(SubSeq(str, 1, Len(str) - 1))
    ELSE str

\* str.strip()
Strip(str) == RStrip(LStrip(str))

LowerChar(c) ==
    CASE c = "N" -> "n"
      [] c = "O" -> "o"
      [] c = "U" -> "u"
      [] c = "I" -> "i"
      [] OTHER -> c

\* str.lower()
Lower(str) == [i \in 1..Len(str) |-> LowerChar(str[i])]

\* str.replace(old, new) for one-character old and new
Replace(str, old, new) ==
    [i \in 1..Len(str) |-> IF str[i] = old THEN new ELSE str[i]]

\* str.splitlines(): a newline ends a line; no empty last line is produced
RECURSIVE SplitLinesFrom(_, _)
SplitLinesFrom(str, cur) ==
    IF str = <<>> THEN (IF cur = <<>> THEN <<>> ELSE <<cur>>)
    ELSE IF Head(str) = "\n" THEN <<cur>> \o SplitLinesFrom(Tail(str), <<>>)
    ELSE SplitLinesFrom(Tail(str), Append(cur, Head(str)))

SplitLines(str) == SplitLinesFrom(str, <<>>)

\* sub in str
Contains(sub, str) ==
    \E i \in 1..(Len(str) - Len(sub) + 1) : SubSeq(str, i, i + Len(sub) - 1) = sub

\* x or y
Or(x, y) == IF x = None THEN y ELSE x

\* s(x): "" if x is None else str(x)
s(x) == IF x = None THEN <<>> ELSE x

EscapeChar(c) ==
    CASE c = "&" -> <<"&", "a", "m", "p", ";">>
      [] c = "<" -> <<"&", "l", "t", ";">>
      [] c = ">" -> <<"&", "g", "t", ";">>
      [] c = "\"" -> <<"&", "q", "u", "o", "t", ";">>
      [] c = "'" -> <<"&", "#", "x", "2", "7", ";">>
      [] OTHER -> <<c>>

\* html.escape(str) (quote=True)
RECURSIVE Escape(_)
Escape(str) ==
    IF str = <<>> THEN <<>> ELSE EscapeChar(Head(str)) \o Escape(Tail(str))

HexDigit(d) ==
    CASE d < 10 -> <<"0","1","2","3","4","5","6","7","8","9">>[d + 1]
      [] OTHER -> <<"a","b","c","d","e","f">>[d - 9]

RECURSIVE HexDigits(_)
HexDigits(n) ==
    IF n < 16 THEN <<HexDigit(n)>> ELSE Append(HexDigits(n \div 16), HexDigit(n % 16))

\* hex(n), n >= 0
Hex(n) == <<"0", "x">> \o HexDigits(n)

DecDigit(d) == <<"0","1","2","3","4","5","6","7","8","9">>[d + 1]

\* n printed in exactly w decimal digits (strftime / isoformat fields)
RECURSIVE Pad(_, _)
Pad(n, w) == IF w = 0 THEN <<>> ELSE Append(Pad(n \div 10, w - 1), DecDigit(n % 10))

Abs(n) == IF n < 0 THEN -n ELSE n

----------------------------------------------------------------------------
(* The clock: datetime.now().astimezone() and its formats *)

\* A timezone-aware local time; off is the UTC offset in minutes.
Timestamps ==
    [year : {2026}, month : {11}, day : {6}, hour : {7, 17}, minute : {39},
     second : {0, 59}, micro : {0, 5}, off : {-60, 60}]

\* The times the clock shows when a run of either program reads it.
ClockReadings == {t \in Timestamps : t.hour = 7 /\ t.second = 0 /\ t.off = 60}

\* utcoffset part of isoformat(): sign, HH:MM
OffsetStr(off) ==
    <<IF off < 0 THEN "-" ELSE "+">> \o Pad(Abs(off) \div 60, 2) \o <<":">>
        \o Pad(Abs(off) % 60, 2)

ClockStr(t) == Pad(t.hour, 2) \o <<":">> \o Pad(t.minute, 2) \o <<":">> \o Pad(t.second, 2)

DayStr(t) == Pad(t.year, 4) \o <<"-">> \o Pad(t.month, 2) \o <<"-">> \o Pad(t.day, 2)

\* the microseconds are printed only when they are not zero
MicroStr(t) == IF t.micro = 0 THEN <<>> ELSE <<".">> \o Pad(t.micro, 6)

\* dt.isoformat(sep)
IsoFormat(t, sep) == DayStr(t) \o <<sep>> \o ClockStr(t) \o MicroStr(t) \o OffsetStr(t.off)

\* dt.strftime("%d/%m/%Y")
DateStr(t) == Pad(t.day, 2) \o <<"/">> \o Pad(t.month, 2) \o <<"/">> \o Pad(t.year, 4)

\* dt.tzname(): the local zone's name, a label the host supplies
TzName(t) == <<"tzname">> \o OffsetStr(t.off)

\* now_iso() for the clock reading t
now_iso(t) ==
    [iso |-> IsoFormat(t, "T"), date_str |-> DateStr(t), time_str |-> ClockStr(t),
     tzname |-> TzName(t)]

\* safe_ts as it would be if the sign of the offset were replaced as well.
SafeTsSignReplaced(iso) == Replace(Replace(iso, ":", "-"), "+", "-")

\* safe_ts = iso.replace(":", "-")
SafeTs(iso) == Replace(iso, ":", "-")

FilePrefix == <<"u","s","b","_","s","c","a","n","_","r","e","p","o","r","t","_">>
FileSuffix == <<".","h","t","m","l">>

\* filename = f"usb_scan_report_{safe_ts}.html"
ReportFileName(iso) == FilePrefix \o SafeTs(iso) \o FileSuffix

----------------------------------------------------------------------------
(* What the host offers to the probes *)

Devices == 1..MaxDev

\* An enumeration lists some of the attached devices, each once, in the
\* mechanism's own discovery order.
Enumerations ==
    UNION {{q \in [1..n -> Devices] : \A i, j \in 1..n : q[i] = q[j] => i = j}
           : n \in 0..MaxDev}

\* One run of an iterating mechanism (pyusb, pyudev, WMI): the devices it
\* would list, and failAt = k when it raises on the way to device k + 1,
\* after k devices have been handled (k = 0: the call itself raises, or the
\* first device does); failAt = -1 when it does not raise.
Runs ==
    {[items |-> q, failAt |-> f] : q \in Enumerations, f \in -1..MaxDev}

IterationOutcomes == {r \in Runs : r.failAt <= 0 \/ r.failAt < Len(r.items)}

\* What an external listing command can print.
StdoutSamples ==
    { <<>>,
      <<"\n">>,
      <<"a">>,
      <<"a", "\n", "b", "\n">>,
      <<" ", "a", " ", "\n", "\n", "<", "b", ">">> }

\* subprocess.run(...) either returns the completed process or raises (the
\* command is not installed); a command that never exits is CommandHangs.
CommandOutcomes ==
    {[raised |-> FALSE, stdout |-> o] : o \in StdoutSamples}
        \cup {[raised |-> TRUE, stdout |-> <<>>]}

USB == <<"U", "S", "B">>

\* The descriptor of attached device k as pyusb shows it.
UsbDevice(k) ==
    [idVendor |-> IF k = 1 THEN 7531 ELSE 32902 + k,
     idProduct |-> k,
     bus |-> 1,
     address |-> k,
     iManufacturer |-> IF k = 1 THEN 0 ELSE 1,
     iProduct |-> 2,
     iSerialNumber |-> IF k % 2 = 0 THEN 3 ELSE 0,
     repr |-> <<"repr">> \o Pad(k, 2)]

\* The udev properties of attached device k.
UdevDevice(k) ==
    [ID_VENDOR_ID |-> <<"ID_VENDOR_ID">> \o Pad(k, 2),
     ID_MODEL_ID |-> <<"ID_MODEL_ID">> \o Pad(k, 2),
     ID_VENDOR_FROM_DATABASE |-> IF k % 2 = 1 THEN None ELSE <<"ID_VENDOR_FROM_DATABASE">> \o Pad(k, 2),
     ID_VENDOR |-> <<"ID_VENDOR">> \o Pad(k, 2),
     ID_MODEL |-> <<"ID_MODEL">> \o Pad(k, 2),
     ID_SERIAL_SHORT |-> IF k % 2 = 0 THEN None ELSE <<"ID_SERIAL_SHORT">> \o Pad(k, 2),
     ID_SERIAL |-> <<"ID_SERIAL">> \o Pad(k, 2),
     device_node |-> IF k = 1 THEN None ELSE <<"device_node">> \o Pad(k, 2),
     sys_path |-> <<"sys_path">> \o Pad(k, 2)]

\* The Win32_PnPEntity instance k.
PnPEntity(k) ==
    [Name |-> <<"Name">> \o Pad(k, 2),
     PNPClass |-> CASE k = 1 -> USB
                    [] k = 2 -> <<"N", "e", "t">>
                    [] OTHER -> None,
     DeviceID |-> CASE k = 2 -> <<"P", "C", "I", "\\", "2">>
                    [] OTHER -> USB \o <<"\\", "V", "I", "D">>,
     PNPDeviceID |-> <<"PNPDeviceID">> \o Pad(k, 2),
     Manufacturer |-> IF k = 1 THEN None ELSE <<"Manufacturer">> \o Pad(k, 2),
     Service |-> <<"Service">> \o Pad(k, 2)]

----------------------------------------------------------------------------
(* The probes *)

\* The loop as it would be if an exception threw away what it had collected.
HandledNoneOnFailure(run) == IF run.failAt = -1 THEN run.items ELSE <<>>

\* The devices a try: for ...: results.append(...) except: pass loop has
\* appended when it ends: all of them, or those before the exception.
Handled(run) ==
    IF run.failAt = -1 THEN run.items ELSE SubSeq(run.items, 1, run.failAt)

\* usb.util.get_string(dev, index) if index else None; None when it raises
GetString(dev, index, readable) ==
    IF index # 0 /\ readable THEN <<"string">> \o Pad(dev.address, 2) \o Pad(index, 2) ELSE None

PyusbInfo(dev, readable) ==
    [backend |-> "pyusb",
     vendor_id |-> Hex(dev.idVendor),
     product_id |-> Hex(dev.idProduct),
     bus |-> dev.bus,
     address |-> dev.address,
     manufacturer |-> GetString(dev, dev.iManufacturer, readable),
     product |-> GetString(dev, dev.iProduct, readable),
     serial_number |-> GetString(dev, dev.iSerialNumber, readable),
     raw |-> dev.repr]

\* scan_with_pyusb(): has is HAS_PYUSB
scan_with_pyusb(has, run, readable) ==
    IF ~has THEN <<>>
    ELSE LET devs == Handled(run)
         IN  [i \in 1..Len(devs) |-> PyusbInfo(UsbDevice(devs[i]), readable)]

PyudevInfo(device) ==
    [backend |-> "pyudev",
     vendor_id |-> device.ID_VENDOR_ID,
     product_id |-> device.ID_MODEL_ID,
     manufacturer |-> Or(device.ID_VENDOR_FROM_DATABASE, device.ID_VENDOR),
     product |-> device.ID_MODEL,
     serial_number |-> Or(device.ID_SERIAL_SHORT, device.ID_SERIAL),
     devnode |-> device.device_node,
     sys_path |-> device.sys_path]

\* scan_linux(), the pyudev enumeration
PyudevRecords(has, run) ==
    IF ~has THEN <<>>
    ELSE LET devs == Handled(run)
         IN  [i \in 1..Len(devs) |-> PyudevInfo(UdevDevice(devs[i]))]

\* scan_linux(), the lsusb fallback: one record per line of the stripped output
LsusbRecords(outcome) ==
    IF outcome.raised \/ outcome.stdout = <<>> THEN <<>>
    ELSE LET lines == SplitLines(Strip(outcome.stdout))
         IN  [i \in 1..Len(lines) |-> [backend |-> "lsusb", line |-> Strip(lines[i])]]

\* scan_macos() and scan_windows(): the whole output as one text record
TextRecord(backend, outcome) ==
    IF outcome.raised \/ outcome.stdout = <<>> THEN <<>>
    ELSE <<[backend |-> backend, text |-> outcome.stdout]>>

\* dev.PNPClass and "USB" in (dev.PNPClass or "") or (dev.DeviceID and "USB" in dev.DeviceID)
IsUsbEntity(dev) ==
    \/ dev.PNPClass # None /\ Contains(USB, Or(dev.PNPClass, <<>>))
    \/ dev.DeviceID # None /\ Contains(USB, dev.DeviceID)

WmiInfo(dev) ==
    [backend |-> "WMI",
     name |-> s(dev.Name),
     device_id |-> s(dev.DeviceID),
     pnp_device_id |-> s(dev.PNPDeviceID),
     manufacturer |-> s(dev.Manufacturer),
     service |-> s(dev.Service)]

\* scan_windows(), the WMI query
WmiRecords(has, run) ==
    IF ~has THEN <<>>
    ELSE LET devs == Handled(run)
             usb == SelectSeq(devs, LAMBDA k : IsUsbEntity(PnPEntity(k)))
         IN  [i \in 1..Len(usb) |-> WmiInfo(PnPEntity(usb[i]))]

\* The merge as it would be if the new records were put in front.
ExtendInFront(results, more) == more \o results

\* results.append(...) in a loop, results.extend(...)
Extend(results, more) == results \o more

\* scan_all(): the mechanism the dispatcher starts with on each host
FirstProbe(sys) ==
    CASE sys = "Linux" -> "pyudev"
      [] sys = "Darwin" -> "system_profiler"
      [] sys = "Windows" -> "WMI"
      [] OTHER -> "pyusb"

----------------------------------------------------------------------------
(* The report: a document is a sequence of segments, the template's own    *)
(* markup and the values interpolated into it                              *)

Markup(word) == [kind |-> "markup", text |-> <<word>>]
Value(text) == [kind |-> "value", text |-> text]

RECURSIVE Flatten(_)
Flatten(seqs) == IF seqs = <<>> THEN <<>> ELSE Head(seqs) \o Flatten(Tail(seqs))

\* str(n), n >= 0
RECURSIVE Str(_)
Str(n) == IF n < 10 THEN <<DecDigit(n)>> ELSE Append(Str(n \div 10), DecDigit(n % 10))

\* The replacement fields of the header f-string, in the order Python
\* evaluates them, with the names each one reads.  The style sheet's lines
\* double their braces, except the .record rule, whose single braces make
\* "margin-bottom" an expression (and the rest of the rule its format).
ReportHeaderFields ==
    << [line |-> 197, names |-> {"safe", "scan_time_iso"}],
       [line |-> 206, names |-> {"margin", "bottom"}],
       [line |-> 212, names |-> {"safe", "scan_date", "scan_time", "scan_tz"}],
       [line |-> 213, names |-> {"safe", "platform"}],
       [line |-> 215, names |-> {"len", "scan_records"}] >>

\* The names bound where the header is evaluated: the parameters, the
\* locals, the module's globals and the builtins.
ReportScope ==
    { "scan_records", "scan_time_iso", "scan_date", "scan_time", "scan_tz",
      "filename", "safe", "html_parts",
      "sys", "platform", "subprocess", "webbrowser", "html", "datetime", "Path",
      "HAS_PYUSB", "HAS_PYUDEV", "HAS_WMI", "now_iso", "s", "scan_with_pyusb",
      "scan_linux", "scan_macos", "scan_windows", "scan_all",
      "generate_html_report", "main",
      "len", "enumerate", "str", "hex", "repr", "getattr", "print", "input" }

\* The fields whose evaluation raises NameError.
UnboundFields(fields, scope) ==
    {i \in DOMAIN fields : ~(fields[i].names \subseteq scope)}

ReportHeader(now, sys, n) ==
    << Markup("<!doctype html>...<title>USB-SCAN - rapport "), Value(Escape(now.iso)),
       Markup("</title><style>...</style></head><body>...<strong>Date :</strong> "),
       Value(Escape(now.date_str)), Markup(" <strong>Heure :</strong> "),
       Value(Escape(now.time_str)), Markup(" <strong>Timezone :</strong> "),
       Value(Escape(now.tzname)), Markup("<br><strong>Systeme :</strong> "),
       Value(Escape(<<sys>>)), Value(Escape(<<"release">>)), Value(Escape(<<"platform">>)),
       Markup("</div><h2>Resume des elements trouves : "), Value(Str(n)),
       Markup(" entrees</h2><div>") >>

FieldOrder ==
    << "vendor_id", "product_id", "manufacturer", "product", "serial_number", "name",
       "device_id", "pnp_device_id", "service", "devnode", "sys_path", "bus", "address" >>

Numeric == {"bus", "address"}

\* k in rec and rec[k]
Present(rec, k) ==
    k \in DOMAIN rec /\ (IF k \in Numeric THEN rec[k] # 0 ELSE rec[k] # <<>>)

FieldLine(rec, k) ==
    IF Present(rec, k)
    THEN << Markup("<div><strong>"), Value(Escape(<<k>>)), Markup(":</strong> "),
            Value(Escape(IF k \in Numeric THEN Str(rec[k]) ELSE s(rec[k]))),
            Markup("</div>") >>
    ELSE <<>>

Payload(rec, k, open, close) ==
    IF k \in DOMAIN rec
    THEN << Markup(open), Value(Escape(rec[k])), Markup(close) >>
    ELSE <<>>

RecordSection(rec, i) ==
    << Markup("<div class=\"record\"><strong>Entree #"), Value(Str(i)),
       Markup(" - backend: "), Value(Escape(<<rec.backend>>)), Markup("</strong><br>") >>
    \o Flatten([j \in 1..Len(FieldOrder) |-> FieldLine(rec, FieldOrder[j])])
    \o Payload(rec, "line", "<div><strong>lsusb line:</strong> <code>", "</code></div>")
    \o Payload(rec, "text", "<div><strong>Text output:</strong><pre>", "</pre></div>")
    \o Payload(rec, "raw", "<div><strong>raw:</strong> <code>", "</code></div>")
    \o << Markup("</div>") >>

ReportFooter(now) ==
    << Markup("</div><footer>Genere par USB-SCAN - "), Value(Escape(now.iso)),
       Markup("</footer></body></html>") >>

\* generate_html_report(scan_records, iso, date, time, tz, filename): the
\* header is built first; an exception in it leaves the function before
\* anything is written.
generate_html_report(scan_records, now, sys) ==
    IF UnboundFields(ReportHeaderFields, ReportScope) # {}
    THEN [raised |-> "NameError", document |-> <<>>]
    ELSE [raised |-> "",
          document |-> ReportHeader(now, sys, Len(scan_records))
              \o Flatten([i \in 1..Len(scan_records) |-> RecordSection(scan_records[i], i)])
              \o ReportFooter(now)]

----------------------------------------------------------------------------
(* State *)

VARIABLES
    pc,                   \* the statement the running program is at
    exit,                 \* "running", "normal" (the program ended) or
                          \* "traceback" (an exception left the program)
    blocked,              \* the external command the program waits for, or "none"
    system,               \* platform.system()
    HAS_PYUSB,
    HAS_PYUDEV,
    HAS_WMI,
    now,                  \* usb.py: iso, date_str, time_str, tzname of the cycle
    results,              \* usb.py: the list the scan is building
    host,                 \* what the host answered to each mechanism this cycle
    scan_data,            \* usb.py: the capture set scan_all() returned
    scans_done,
    filename,
    written,              \* the files written, in order: name and document
    answers,              \* what was typed at the continue prompt, in order
    maintenant,           \* USB-SCAN.py: the time read when the script starts
    reponses_utilisateur, \* USB-SCAN.py
    continu,              \* USB-SCAN.py
    opened,               \* what was handed to webbrowser.open
    isoA, isoB,           \* two capture timestamps, as isoformat() prints them
    nameA, nameB          \* the report file names derived from them

usbVars ==
    <<system, HAS_PYUSB, HAS_PYUDEV, HAS_WMI, now, results, host, scan_data,
      scans_done, filename>>
scriptVars == <<maintenant, reponses_utilisateur, continu, opened>>
nameVars == <<isoA, isoB, nameA, nameB>>
vars == <<pc, exit, blocked, written, answers, usbVars, scriptVars, nameVars>>

Systems == {"Linux", "Darwin", "Windows", "FreeBSD"}
Probes == {"pyudev", "lsusb", "system_profiler", "WMI", "wmic", "pyusb"}
Commands == {"lsusb", "system_profiler", "wmic"}

NoRun == [items |-> <<>>, failAt |-> -1]

NoAnswer ==
    [asked |-> FALSE, items |-> <<>>, failAt |-> -1, readable |-> FALSE,
     raised |-> FALSE, stdout |-> <<>>]

Iterated(run, readable) ==
    [asked |-> TRUE, items |-> run.items, failAt |-> run.failAt, readable |-> readable,
     raised |-> run.failAt # -1, stdout |-> <<>>]

Invoked(outcome) ==
    [asked |-> TRUE, items |-> <<>>, failAt |-> IF outcome.raised THEN 0 ELSE -1,
     readable |-> FALSE, raised |-> outcome.raised, stdout |-> outcome.stdout]

NoTime == [iso |-> <<>>, date_str |-> <<>>, time_str |-> <<>>, tzname |-> <<>>]
NoScriptTime == [date |-> <<>>, time |-> <<>>, zone |-> <<>>]

UsbIdle ==
    /\ system = "Linux" /\ HAS_PYUSB = FALSE /\ HAS_PYUDEV = FALSE /\ HAS_WMI = FALSE
    /\ now = NoTime /\ results = <<>> /\ host = [p \in Probes |-> NoAnswer]
    /\ scan_data = <<>> /\ scans_done = 0 /\ filename = <<>>

ScriptIdle ==
    /\ maintenant = NoScriptTime /\ reponses_utilisateur = <<>> /\ continu = TRUE
    /\ opened = <<>>

NamesIdle == isoA = <<>> /\ isoB = <<>> /\ nameA = <<>> /\ nameB = <<>>

Running == exit = "running" /\ blocked = "none"

----------------------------------------------------------------------------
(* usb.py *)

\* The module's imports set the capability flags; main() starts its loop.
\* wmi is imported on Windows only.
Init ==
    /\ pc = "now_iso" /\ exit = "running" /\ blocked = "none"
    /\ written = <<>> /\ answers = <<>>
    /\ system \in Systems
    /\ HAS_PYUSB \in BOOLEAN
    /\ HAS_PYUDEV \in BOOLEAN
    /\ HAS_WMI \in (IF system = "Windows" THEN BOOLEAN ELSE {FALSE})
    /\ now = NoTime /\ results = <<>> /\ host = [p \in Probes |-> NoAnswer]
    /\ scan_data = <<>> /\ scans_done = 0 /\ filename = <<>>
    /\ ScriptIdle /\ NamesIdle

\* main(): iso, date_str, time_str, tzname = now_iso()
NowIso ==
    /\ pc = "now_iso" /\ Running
    /\ \E t \in ClockReadings : now' = now_iso(t)
    /\ pc' = "scan_all"
    /\ UNCHANGED <<exit, blocked, written, answers, system, HAS_PYUSB, HAS_PYUDEV,
                   HAS_WMI, results, host, scan_data, scans_done, filename,
                   scriptVars, nameVars>>

\* scan_all(): the dispatch on platform.system(); results = []
ScanAll ==
    /\ pc = "scan_all" /\ Running
    /\ results' = <<>>
    /\ host' = [p \in Probes |-> NoAnswer]
    /\ pc' = FirstProbe(system)
    /\ UNCHANGED <<exit, blocked, written, answers, system, HAS_PYUSB, HAS_PYUDEV,
                   HAS_WMI, now, scan_data, scans_done, filename, scriptVars, nameVars>>

\* What a probe step leaves alone.
ProbeFrame ==
    UNCHANGED <<exit, blocked, written, answers, system, HAS_PYUSB, HAS_PYUDEV,
                HAS_WMI, now, scan_data, scans_done, filename, scriptVars, nameVars>>

\* scan_linux(): if HAS_PYUDEV: try: for device in ...: results.append(info)
ScanPyudev ==
    /\ pc = "pyudev" /\ Running
    /\ \E run \in (IF HAS_PYUDEV THEN IterationOutcomes ELSE {NoRun}) :
         /\ results' = Extend(results, PyudevRecords(HAS_PYUDEV, run))
         /\ host' = [host EXCEPT !["pyudev"] =
                        IF HAS_PYUDEV THEN Iterated(run, FALSE) ELSE NoAnswer]
    /\ pc' = "lsusb"
    /\ ProbeFrame

\* scan_linux(): try: p = subprocess.run(["lsusb"], ...) ... except: pass
ScanLsusb ==
    /\ pc = "lsusb" /\ Running
    /\ \E outcome \in CommandOutcomes :
         /\ results' = Extend(results, LsusbRecords(outcome))
         /\ host' = [host EXCEPT !["lsusb"] = Invoked(outcome)]
    /\ pc' = "pyusb"
    /\ ProbeFrame

\* scan_macos(): try: p = subprocess.run(["system_profiler", ...]) ... except: pass
ScanProfiler ==
    /\ pc = "system_profiler" /\ Running
    /\ \E outcome \in CommandOutcomes :
         /\ results' = Extend(results, TextRecord("system_profiler", outcome))
         /\ host' = [host EXCEPT !["system_profiler"] = Invoked(outcome)]
    /\ pc' = "pyusb"
    /\ ProbeFrame

\* scan_windows(): if HAS_WMI: try: for dev in c.Win32_PnPEntity(): ...
ScanWmi ==
    /\ pc = "WMI" /\ Running
    /\ \E run \in (IF HAS_WMI THEN IterationOutcomes ELSE {NoRun}) :
         /\ results' = Extend(results, WmiRecords(HAS_WMI, run))
         /\ host' = [host EXCEPT !["WMI"] =
                        IF HAS_WMI THEN Iterated(run, FALSE) ELSE NoAnswer]
    /\ pc' = "wmic"
    /\ ProbeFrame

\* scan_windows(): try: p = subprocess.run(["wmic", ...]) ... except: pass
ScanWmic ==
    /\ pc = "wmic" /\ Running
    /\ \E outcome \in CommandOutcomes :
         /\ results' = Extend(results, TextRecord("wmic_controller_device", outcome))
         /\ host' = [host EXCEPT !["wmic"] = Invoked(outcome)]
    /\ pc' = "pyusb"
    /\ ProbeFrame

\* subprocess.run(...) is called without a timeout: while the command does
\* not exit, the call does not return and no exception is raised.
CommandHangs ==
    /\ pc \in Commands /\ Running
    /\ blocked' = pc
    /\ host' = [host EXCEPT ![pc] = [NoAnswer EXCEPT !.asked = TRUE]]
    /\ UNCHANGED <<pc, exit, written, answers, system, HAS_PYUSB, HAS_PYUDEV, HAS_WMI,
                   now, results, scan_data, scans_done, filename, scriptVars, nameVars>>

\* results.extend(scan_with_pyusb()); return results
ScanWithPyusb ==
    /\ pc = "pyusb" /\ Running
    /\ \E run \in (IF HAS_PYUSB THEN IterationOutcomes ELSE {NoRun}),
          readable \in BOOLEAN :
         \* string descriptors are read only from a device that is handled
         /\ readable => HAS_PYUSB /\ Handled(run) # <<>>
         /\ results' = Extend(results, scan_with_pyusb(HAS_PYUSB, run, readable))
         /\ host' = [host EXCEPT !["pyusb"] =
                        IF HAS_PYUSB THEN Iterated(run, readable) ELSE NoAnswer]
    /\ pc' = "scanned"
    /\ ProbeFrame

\* main(): scan_data = scan_all(); scans_done += 1; safe_ts = ...; filename = ...
BuildFilename ==
    /\ pc = "scanned" /\ Running
    /\ scan_data' = results
    /\ scans_done' = scans_done + 1
    /\ filename' = ReportFileName(now.iso)
    /\ pc' = "generate_html_report"
    /\ UNCHANGED <<exit, blocked, written, answers, system, HAS_PYUSB, HAS_PYUDEV,
                   HAS_WMI, now, results, host, scriptVars, nameVars>>

\* main(): outpath = generate_html_report(...).  Nothing in main() and nothing
\* around the call main() catches an exception: the one the report raises
\* leaves the program with a traceback.  The statements of main() after
\* this call (the viewer, the prompt, the next pass of the loop) are reached
\* only when the call returns.
GenerateReport ==
    /\ pc = "generate_html_report" /\ Running
    /\ LET report == generate_html_report(scan_data, now, system)
       IN  IF report.raised # ""
           THEN /\ exit' = "traceback"
                /\ pc' = "exited"
                /\ UNCHANGED written
           ELSE /\ written' = Append(written, [name |-> filename,
                                               document |-> report.document])
                /\ pc' = "webbrowser"
                /\ UNCHANGED exit
    /\ UNCHANGED <<blocked, answers, usbVars, scriptVars, nameVars>>

Next ==
    \/ NowIso
    \/ ScanAll
    \/ ScanPyudev
    \/ ScanLsusb
    \/ ScanProfiler
    \/ ScanWmi
    \/ ScanWmic
    \/ CommandHangs
    \/ ScanWithPyusb
    \/ BuildFilename
    \/ GenerateReport

Spec == Init /\ [][Next]_vars

----------------------------------------------------------------------------
(* USB-SCAN.py *)

\* What the operator types at "Quel est votre nom ?"
Noms == { <<"a">>, <<"<", "b", ">">> }

\* What the operator types at a continue prompt (input() drops the newline)
RawAnswers ==
    { <<"n", "o", "n">>, <<" ", "N", "O", "N", " ">>, <<"n">>, <<>>, <<"o", "u", "i">> }

\* usb.py: if answer in ("n", "no", "non")
NegativeTokens == { <<"n">>, <<"n", "o">>, <<"n", "o", "n">> }

\* USB-SCAN.py: if reponse == "non"
Non == <<"n", "o", "n">>

\* maintenant.strftime("%d/%m/%Y"), .strftime("%H:%M:%S"), str(.astimezone())
ScriptTime(t) == [date |-> DateStr(t), time |-> ClockStr(t), zone |-> IsoFormat(t, " ")]

ReportName == <<"reponses_utilisateur.html">>

\* contenu_html += f"""<tr><td>{reponse['nom']}</td>..."""
ScriptRow(reponse, time) ==
    << Markup("<tr><td>"), Value(reponse.nom), Markup("</td><td>"),
       Value(reponse.reponse), Markup("</td><td>"), Value(time.date),
       Markup("</td><td>"), Value(time.time), Markup("</td><td>"), Value(time.zone),
       Markup("</td></tr>") >>

\* contenu_html as it is written
ScriptDocument(reponses, time) ==
    << Markup("<!DOCTYPE html>...<h1>Historique des reponses</h1><table><tr>...</tr>") >>
    \o Flatten([i \in 1..Len(reponses) |-> ScriptRow(reponses[i], time)])
    \o << Markup("</table></body></html>") >>

InitScript ==
    /\ pc = "while" /\ exit = "running" /\ blocked = "none"
    /\ written = <<>> /\ answers = <<>>
    /\ \E t \in ClockReadings : maintenant = ScriptTime(t)
    /\ reponses_utilisateur = <<>> /\ continu = TRUE /\ opened = <<>>
    /\ UsbIdle /\ NamesIdle

\* One pass of while continu: the three prompts, the append, the test.
\* (The first name is read and not used.)
ScriptPass ==
    /\ pc = "while" /\ Running /\ continu
    /\ Len(reponses_utilisateur) < MaxLoop
    /\ \E nom \in Noms, raw \in RawAnswers :
         LET reponse == Lower(Strip(raw))
         IN  /\ reponses_utilisateur' =
                    Append(reponses_utilisateur, [nom |-> nom, reponse |-> reponse])
             /\ answers' = Append(answers, raw)
             /\ continu' = (reponse # Non)
             /\ pc' = IF reponse = Non THEN "contenu_html" ELSE "while"
    /\ UNCHANGED <<exit, blocked, written, maintenant, opened, usbVars, nameVars>>

\* input() raises EOFError when standard input has ended; nothing catches it.
ScriptEndOfInput ==
    /\ pc = "while" /\ Running /\ continu
    /\ exit' = "traceback"
    /\ pc' = "exited"
    /\ UNCHANGED <<blocked, written, answers, usbVars, scriptVars, nameVars>>

\* After the loop: build contenu_html, write it, open it in the browser.
ScriptWrite ==
    /\ pc = "contenu_html" /\ Running
    /\ written' = Append(written,
                         [name |-> ReportName,
                          document |-> ScriptDocument(reponses_utilisateur, maintenant)])
    /\ opened' = Append(opened, ReportName)
    /\ exit' = "normal"
    /\ pc' = "exited"
    /\ UNCHANGED <<blocked, answers, maintenant, reponses_utilisateur, continu,
                   usbVars, nameVars>>

NextScript ==
    \/ ScriptPass
    \/ ScriptEndOfInput
    \/ ScriptWrite

SpecScript == InitScript /\ [][NextScript]_vars

----------------------------------------------------------------------------
(* The report's file name as a function of the capture timestamp *)

InitNames ==
    /\ pc = "safe_ts" /\ exit = "running" /\ blocked = "none"
    /\ written = <<>> /\ answers = <<>>
    /\ isoA \in {IsoFormat(t, "T") : t \in Timestamps}
    /\ isoB \in {IsoFormat(t, "T") : t \in Timestamps}
    /\ nameA = <<>> /\ nameB = <<>>
    /\ UsbIdle /\ ScriptIdle

\* safe_ts = iso.replace(":", "-"); filename = f"usb_scan_report_{safe_ts}.html"
DeriveNames ==
    /\ pc = "safe_ts"
    /\ nameA' = ReportFileName(isoA)
    /\ nameB' = ReportFileName(isoB)
    /\ pc' = "filename"
    /\ UNCHANGED <<exit, blocked, written, answers, isoA, isoB, usbVars, scriptVars>>

NextNames == DeriveNames

SpecNames == InitNames /\ [][NextNames]_vars

----------------------------------------------------------------------------
(* Properties *)

\* scan_all() has returned to main() and scan_data holds the capture set.
Returned == pc \in {"generate_html_report", "webbrowser", "exited"} /\ scans_done > 0

\* The devices a mechanism listed before it raised, if it raised.
Listed(a) ==
    SubSeq(a.items, 1, IF a.failAt = -1 THEN Len(a.items) ELSE a.failAt)

\* The records one mechanism produces from what the host answered to it,
\* whatever the other mechanisms did.
OwnOutput(p) ==
    LET a == host[p]
        outcome == [raised |-> a.raised, stdout |-> a.stdout]
        usb == SelectSeq(Listed(a), LAMBDA k : IsUsbEntity(PnPEntity(k)))
    IN  CASE p = "pyudev" ->
               [i \in 1..Len(Listed(a)) |-> PyudevInfo(UdevDevice(Listed(a)[i]))]
          [] p = "pyusb" ->
               [i \in 1..Len(Listed(a)) |-> PyusbInfo(UsbDevice(Listed(a)[i]), a.readable)]
          [] p = "WMI" -> [i \in 1..Len(usb) |-> WmiInfo(PnPEntity(usb[i]))]
          [] p = "lsusb" -> LsusbRecords(outcome)
          [] p = "system_profiler" -> TextRecord("system_profiler", outcome)
          [] p = "wmic" -> TextRecord("wmic_controller_device", outcome)

\* The fixed order of the mechanisms on each host.
ClaimedOrder(sys) ==
    CASE sys = "Linux" -> <<"pyudev", "lsusb", "pyusb">>
      [] sys = "Darwin" -> <<"system_profiler", "pyusb">>
      [] sys = "Windows" -> <<"WMI", "wmic", "pyusb">>
      [] OTHER -> <<"pyusb">>

\* C1: on every host and for every combination of probe outputs, the
\* sequence scan_all() returns is the concatenation of the probes' outputs
\* in the fixed order of that host (Linux: pyudev, lsusb, pyusb; Darwin:
\* system_profiler, pyusb; Windows: WMI, wmic, pyusb; any other: pyusb),
\* each probe's discovery order kept, nothing dropped, doubled or moved.
C1_CaptureIsOrderedConcatenation ==
    Returned =>
        scan_data = Flatten([i \in 1..Len(ClaimedOrder(system)) |->
                                OwnOutput(ClaimedOrder(system)[i])])

\* C1 witness: a Linux capture to which all three probes contributed, the
\* pyudev one with two devices in the order 2, 1.
C1_Witness ==
    /\ Returned /\ system = "Linux"
    /\ host["pyudev"].items = <<2, 1>> /\ host["pyudev"].failAt = -1
    /\ Len(OwnOutput("lsusb")) = 2
    /\ Len(OwnOutput("pyusb")) >= 1
    /\ Len(scan_data) >= 5

BackendOf(p) == IF p = "wmic" THEN "wmic_controller_device" ELSE p

\* The records of the capture set that carry mechanism p's backend tag.
Contribution(p) == SelectSeq(scan_data, LAMBDA rec : rec.backend = BackendOf(p))

\* A mechanism is absent when its capability flag is false or its command is
\* not installed; it fails when it raises.
AbsentOrFailed(p) == ~host[p].asked \/ host[p].raised

\* C2 (as claimed): a mechanism that is absent, or that fails at any point of
\* its enumeration, also after it has yielded devices, contributes no record
\* to the capture set, and every other mechanism contributes what it would
\* have contributed alone.
C2_FailedMechanismContributesNothing ==
    Returned =>
        \A p \in Probes :
            /\ AbsentOrFailed(p) => Contribution(p) = <<>>
            /\ ~AbsentOrFailed(p) => Contribution(p) = OwnOutput(p)

\* C2 (amended): a mechanism that is absent, or that raises before it has
\* yielded a device, contributes no record; one that raises after it has
\* yielded k devices contributes the records of those k devices and no
\* other; every other mechanism contributes what it would have contributed
\* alone.
C2_FailureKeepsWhatWasYielded ==
    Returned =>
        \A p \in Probes :
            /\ (~host[p].asked \/ host[p].failAt = 0) => Contribution(p) = <<>>
            /\ host[p].failAt > 0 =>
                   /\ Contribution(p) = OwnOutput(p)
                   /\ Len(Contribution(p)) <= host[p].failAt
                   /\ (p # "WMI" => Len(Contribution(p)) = host[p].failAt)
            /\ (~AbsentOrFailed(p) /\ \E q \in Probes \ {p} : AbsentOrFailed(q)) =>
                   Contribution(p) = OwnOutput(p)

\* C2 witness: pyusb raised after its first of two devices and that device's
\* record is in the capture set, next to the lines of lsusb; pyudev is absent.
C2_Witness ==
    /\ Returned /\ system = "Linux" /\ ~HAS_PYUDEV
    /\ host["pyusb"].failAt = 1 /\ Len(host["pyusb"].items) = 2
    /\ Len(Contribution("pyusb")) = 1
    /\ Len(Contribution("lsusb")) = 2

MarkupChars == {"<", ">", "\"", "'"}

Entities ==
    { <<"&", "a", "m", "p", ";">>, <<"&", "l", "t", ";">>, <<"&", "g", "t", ";">>,
      <<"&", "q", "u", "o", "t", ";">>, <<"&", "#", "x", "2", "7", ";">> }

\* text holds no markup-significant character but the "&" of an entity
IsEscapedText(text) ==
    \A i \in 1..Len(text) :
        /\ text[i] \notin MarkupChars
        /\ text[i] = "&" =>
               \E e \in Entities :
                   i + Len(e) - 1 <= Len(text) /\ SubSeq(text, i, i + Len(e) - 1) = e

\* C3: every value interpolated into a written HTML document (record fields,
\* console output, timestamp and host strings, what the operator typed)
\* stands there in its escaped form: no literal <, >, & or quote.
C3_InterpolatedValuesAreEscaped ==
    \A f \in 1..Len(written) :
        \A j \in 1..Len(written[f].document) :
            written[f].document[j].kind = "value" =>
                IsEscapedText(written[f].document[j].text)

Normal(answer) == Lower(Strip(answer))

\* C4: the operator's answer decides: the loop goes on after every answer
\* that is not a negative token and stops after one that is, so it ends if
\* and only if a negative token has been typed.
C4_LoopEndsOnlyOnNegativeAnswer ==
    /\ \A i \in 1..(Len(answers) - 1) : Normal(answers[i]) \notin NegativeTokens
    /\ exit # "running" =>
           answers # <<>> /\ Normal(answers[Len(answers)]) \in NegativeTokens

C6_EveryCycleWritesOneReport ==
    pc \in {"webbrowser", "exited"} => Len(written) = scans_done

\* C7: every external command a probe runs is under a timeout: when the
\* command never returns, the probe gives up on it and the capture goes on.
C7_HungCommandIsGivenUp ==
    blocked # "none" => ENABLED Next

\* The count shown in the heading, and the number of device sections.
HeadingCount(document) ==
    LET at == CHOOSE j \in 1..Len(document) :
                  document[j] = Markup("</div><h2>Resume des elements trouves : ")
    IN  document[at + 1].text

Sections(document) ==
    Len(SelectSeq(document, LAMBDA seg : seg = Markup("<div class=\"record\"><strong>Entree #")))

\* C8: for every capture set C, the empty one too, rendering C gives a
\* document whose heading shows len(C) and that has len(C) device sections.
C8_ReportShowsEveryRecord ==
    pc \in {"webbrowser", "exited"} =>
        /\ Len(written) = 1
        /\ HeadingCount(written[1].document) = Str(Len(scan_data))
        /\ Sections(written[1].document) = Len(scan_data)

\* C9: a failure that no probe, renderer or viewer step handles is caught at
\* the process boundary, reported, and the process waits for the operator:
\* the process never ends by an exception that nothing caught.
C9_NoExitByUncaughtException ==
    exit # "traceback"

====
